---------------------------- MODULE Spec2Model ----------------------------
(***************************************************************************)
(* Model of the cryptodata Client (EncryptData / DecryptData over a        *)
(* keyring, RSA-OAEP + URL-safe base64) and of the gRPC Config             *)
(* (getTLS, getGrpcOptions, GetPort).                                      *)
(*                                                                         *)
(* Library code the client calls (crypto/rsa, hash.Hash, encoding/base64)  *)
(* is modelled at the call sites:                                          *)
(*   - hash.Hash is a stateful object with Reset / Write / Sum; the toy    *)
(*     digest is HashSize byte(s) wide and is the running state.           *)
(*   - OAEP padding, MGF1 masking and the padding checks follow            *)
(*     crypto/rsa step by step on byte sequences.                          *)
(*   - the RSA trapdoor permutation is a keyed bijection on KeyBytes-long  *)
(*     byte strings; decrypting with another key yields an encoded         *)
(*     message whose leading byte is not zero, so OAEP rejects it (the     *)
(*     cryptographic assumption "a wrong key never validates").            *)
(*   - base64.URLEncoding is computed on the real 64-character alphabet    *)
(*     with '=' padding.                                                   *)
(***************************************************************************)
EXTENDS Integers, Sequences, FiniteSets, TLC

VARIABLES
    PrivateKeys,   \* Client.ClientConfig.PrivateKeys: sequence of key ids
    Hash,          \* Client.ClientConfig.Hash: state of the one shared hash.Hash
    encCall,       \* last EncryptData call: arguments and results
    decCall,       \* last DecryptData call: argument and results
    gr,            \* goroutines running EncryptData / DecryptData step by step
    cfg,           \* the grpc Config
    ret            \* last Config method call and what it returned

vars == <<PrivateKeys, Hash, encCall, decCall, gr, cfg, ret>>

-----------------------------------------------------------------------------
(* Bounds *)

MaxKeys == 2          \* longest keyring
MaxCAfiles == 2       \* longest CAfiles list
MaxEndpointLen == 4   \* longest enumerated Endpoint

-----------------------------------------------------------------------------
(* Bytes and sequences *)

RECURSIVE Xor(_, _)
Xor(a, b) ==
    IF a = 0 /\ b = 0 THEN 0
    ELSE (((a % 2) + (b % 2)) % 2) + (2 * Xor(a \div 2, b \div 2))

Zeros(n) == [i \in 1..n |-> 0]

Slice(s, from, to) == [i \in 1..(to - from + 1) |-> s[from + i - 1]]

SeqsUpTo(S, n) == UNION {[1..m -> S] : m \in 0..n}

-----------------------------------------------------------------------------
(* hash.Hash: the object NewClient stores in the Client *)

HashBits == 2
HashMod == 2 ^ HashBits
HashSize == 1
HashInit == 1

HashReset == HashInit

RECURSIVE HashWrite(_, _)
HashWrite(h, bs) ==
    IF bs = <<>> THEN h
    ELSE HashWrite(((h * 3) + Head(bs) + 1) % HashMod, Tail(bs))

HashSum(h) == <<h>>

-----------------------------------------------------------------------------
(* crypto/rsa: keys, the trapdoor permutation, OAEP *)

KeyIds == {1, 2, 3}
KeyBytes == 5
MaxMsgLen == KeyBytes - 2 * HashSize - 2

PublicKey(priv) == priv

LeftPad(c, k) == Zeros(k - Len(c)) \o c

rsaEncrypt(pub, em) == [em EXCEPT ![1] = Xor(em[1], pub)]

rsaDecrypt(priv, c) == [c EXCEPT ![1] = Xor(c[1], priv)]

Counter(n) == <<0, 0, 0, n>>

\* out[done:] ^= digest, as far as both reach
xorInto(out, done, digest) ==
    [i \in 1..Len(out) |->
        IF i > done /\ i <= done + Len(digest)
        THEN Xor(out[i], digest[i - done]) ELSE out[i]]

Advance(out, done, digest) ==
    IF Len(out) - done < Len(digest) THEN Len(out) ELSE done + Len(digest)

\* mgf1XOR(out, hash, seed): one loop iteration per digest, HashSize bytes each
RECURSIVE mgf1Loop(_, _, _, _, _)
mgf1Loop(out, h, seed, done, counter) ==
    IF done >= Len(out) THEN [out |-> out, hash |-> h]
    ELSE LET h1 == HashWrite(h, seed)
             h2 == HashWrite(h1, Counter(counter))
             digest == HashSum(h2)
             h3 == HashReset
         IN mgf1Loop(xorInto(out, done, digest), h3, seed,
                     Advance(out, done, digest), counter + 1)

mgf1XOR(out, h, seed) == mgf1Loop(out, h, seed, 0, 0)

\* db = lHash || 0...0 || 1 || msg
PaddedDB(lHash, msg) ==
    lHash \o Zeros(KeyBytes - 2 * HashSize - 2 - Len(msg)) \o <<1>> \o msg

EncryptOAEP(h, seed, pub, msg) ==
    LET h0 == HashReset
    IN IF Len(msg) > KeyBytes - 2 * HashSize - 2
       THEN [data |-> <<>>, isNil |-> TRUE, err |-> "ErrMessageTooLong", hash |-> h0]
       ELSE LET h1 == HashWrite(h0, <<>>)
                lHash == HashSum(h1)
                h2 == HashReset
                db == PaddedDB(lHash, msg)
                m1 == mgf1XOR(db, h2, seed)
                m2 == mgf1XOR(seed, m1.hash, m1.out)
                em == <<0>> \o m2.out \o m1.out
            IN [data |-> rsaEncrypt(pub, em), isNil |-> FALSE, err |-> "nil",
                hash |-> m2.hash]

\* index (in rest) of the first byte that is 1 with only zeros before it; 0 if none
RECURSIVE Separator(_, _)
Separator(rest, i) ==
    IF i > Len(rest) THEN 0
    ELSE IF rest[i] = 1 THEN i
    ELSE IF rest[i] = 0 THEN Separator(rest, i + 1)
    ELSE 0

OAEPCheck(em, lHash, seed, db) ==
    LET rest == Slice(db, HashSize + 1, Len(db))
        index == Separator(rest, 1)
    IN IF em[1] = 0 /\ Slice(db, 1, HashSize) = lHash /\ index > 0
       THEN [data |-> Slice(rest, index + 1, Len(rest)), isNil |-> FALSE, err |-> "nil"]
       ELSE [data |-> <<>>, isNil |-> TRUE, err |-> "ErrDecryption"]

DecryptOAEP(h, priv, ciphertext) ==
    IF Len(ciphertext) > KeyBytes \/ KeyBytes < HashSize * 2 + 2
    THEN [data |-> <<>>, isNil |-> TRUE, err |-> "ErrDecryption", hash |-> h]
    ELSE LET em == rsaDecrypt(priv, LeftPad(ciphertext, KeyBytes))
             h1 == HashWrite(h, <<>>)
             lHash == HashSum(h1)
             h2 == HashReset
             seed0 == Slice(em, 2, HashSize + 1)
             db0 == Slice(em, HashSize + 2, KeyBytes)
             m1 == mgf1XOR(seed0, h2, db0)
             m2 == mgf1XOR(db0, m1.hash, m1.out)
             r == OAEPCheck(em, lHash, m1.out, m2.out)
         IN [data |-> r.data, isNil |-> r.isNil, err |-> r.err, hash |-> m2.hash]

-----------------------------------------------------------------------------
(* encoding/base64: URLEncoding (padded, not strict) *)

encodeURL ==
    <<"A","B","C","D","E","F","G","H","I","J","K","L","M","N","O","P",
      "Q","R","S","T","U","V","W","X","Y","Z","a","b","c","d","e","f",
      "g","h","i","j","k","l","m","n","o","p","q","r","s","t","u","v",
      "w","x","y","z","0","1","2","3","4","5","6","7","8","9","-","_">>

StdPadding == "="

Alphabet == {encodeURL[i] : i \in 1..64}

decodeTable == [c \in Alphabet |-> (CHOOSE i \in 1..64 : encodeURL[i] = c) - 1]

DecodeMap(c) == decodeTable[c]

RECURSIVE EncodeToString(_)
EncodeToString(src) ==
    IF Len(src) = 0 THEN <<>>
    ELSE IF Len(src) >= 3
    THEN LET val == (src[1] * 65536) + (src[2] * 256) + src[3]
         IN <<encodeURL[(val \div 262144) + 1],
              encodeURL[((val \div 4096) % 64) + 1],
              encodeURL[((val \div 64) % 64) + 1],
              encodeURL[(val % 64) + 1]>>
            \o EncodeToString(Slice(src, 4, Len(src)))
    ELSE IF Len(src) = 2
    THEN LET val == (src[1] * 65536) + (src[2] * 256)
         IN <<encodeURL[(val \div 262144) + 1],
              encodeURL[((val \div 4096) % 64) + 1],
              encodeURL[((val \div 64) % 64) + 1],
              StdPadding>>
    ELSE LET val == src[1] * 65536
         IN <<encodeURL[(val \div 262144) + 1],
              encodeURL[((val \div 4096) % 64) + 1],
              StdPadding, StdPadding>>

\* the decoder skips '\r' and '\n' wherever they stand
StripNewlines(s) == SelectSeq(s, LAMBDA c : c # "\n" /\ c # "\r")

\* number of leading alphabet characters among the first four of s
RECURSIVE QuantumLen(_, _)
QuantumLen(s, j) ==
    IF j >= 4 \/ j >= Len(s) \/ s[j + 1] \notin Alphabet THEN j
    ELSE QuantumLen(s, j + 1)

QuantumVal(s, dlen) ==
    LET d(i) == IF i <= dlen THEN DecodeMap(s[i]) ELSE 0
    IN (d(1) * 262144) + (d(2) * 4096) + (d(3) * 64) + d(4)

QuantumBytes(s, dlen) ==
    LET val == QuantumVal(s, dlen)
        all == <<val \div 65536, (val \div 256) % 256, val % 256>>
    IN Slice(all, 1, dlen - 1)

RECURSIVE decodeQuantum(_, _)
decodeQuantum(s, acc) ==
    IF Len(s) = 0 THEN [data |-> acc, err |-> "nil"]
    ELSE LET j == QuantumLen(s, 0)
         IN IF j = 4
            THEN decodeQuantum(Slice(s, 5, Len(s)), acc \o QuantumBytes(s, 4))
            ELSE IF j >= Len(s)
            THEN [data |-> acc, err |-> "CorruptInputError"]     \* input ends inside a quantum
            ELSE IF s[j + 1] # StdPadding
            THEN [data |-> acc, err |-> "CorruptInputError"]     \* not in the alphabet
            ELSE IF j < 2
            THEN [data |-> acc, err |-> "CorruptInputError"]     \* padding too early
            ELSE IF j = 2 /\ (Len(s) < 4 \/ s[4] # StdPadding)
            THEN [data |-> acc, err |-> "CorruptInputError"]     \* "=" must be "=="
            ELSE IF Len(s) > 4
            THEN [data |-> acc, err |-> "CorruptInputError"]     \* garbage after padding
            ELSE [data |-> acc \o QuantumBytes(s, j), err |-> "nil"]

DecodeString(s) == decodeQuantum(StripNewlines(s), <<>>)

-----------------------------------------------------------------------------
(* cryptodata.Client *)

ErrNoKey == "failed to decrypt data due to no private key matching"

NewClient(clientConfig) ==
    [PrivateKeys |-> clientConfig.PrivateKeys,
     Hash |-> IF clientConfig.Hash = "nil" THEN HashReset ELSE clientConfig.Hash]

\* variant: encodes without padding (base64.RawURLEncoding)
EncryptData_RawEncoding(h, seed, inData, pub) ==
    LET r == EncryptOAEP(h, seed, pub, inData)
    IN [data |-> SelectSeq(EncodeToString(r.data), LAMBDA c : c # StdPadding),
        isNil |-> FALSE, err |-> r.err, hash |-> r.hash]

EncryptData(h, seed, inData, pub) ==
    LET r == EncryptOAEP(h, seed, pub, inData)
    IN [data |-> EncodeToString(r.data), isNil |-> FALSE, err |-> r.err,
        hash |-> r.hash]

\* variant: the loop does not return on the first success, the last one wins
RECURSIVE lastMatch(_, _, _, _, _)
lastMatch(h, keys, i, inData, found) ==
    IF i > Len(keys) THEN [found EXCEPT !.hash = h]
    ELSE LET r == DecryptOAEP(h, keys[i], inData)
         IN IF r.err = "nil"
            THEN lastMatch(r.hash, keys, i + 1, inData,
                           [data |-> r.data, isNil |-> r.isNil, err |-> "nil",
                            tried |-> Len(keys), hash |-> r.hash])
            ELSE lastMatch(r.hash, keys, i + 1, inData, found)

decryptKeys_LastMatch(h, keys, i, inData) ==
    lastMatch(h, keys, i, inData,
              [data |-> <<>>, isNil |-> TRUE, err |-> ErrNoKey, tried |-> Len(keys),
               hash |-> h])

\* variant: after the loop the error of the decoding step (nil) is returned
RECURSIVE decryptKeys_OuterErr(_, _, _, _)
decryptKeys_OuterErr(h, keys, i, inData) ==
    IF i > Len(keys)
    THEN [data |-> <<>>, isNil |-> TRUE, err |-> "nil", tried |-> Len(keys), hash |-> h]
    ELSE LET r == DecryptOAEP(h, keys[i], inData)
         IN IF r.err = "nil"
            THEN [data |-> r.data, isNil |-> r.isNil, err |-> "nil", tried |-> i,
                  hash |-> r.hash]
            ELSE decryptKeys_OuterErr(r.hash, keys, i + 1, inData)

\* the loop over client.PrivateKeys, from key i on; tried counts the keys attempted
RECURSIVE decryptKeys(_, _, _, _)
decryptKeys(h, keys, i, inData) ==
    IF i > Len(keys)
    THEN [data |-> <<>>, isNil |-> TRUE, err |-> ErrNoKey, tried |-> Len(keys),
          hash |-> h]
    ELSE LET r == DecryptOAEP(h, keys[i], inData)
         IN IF r.err = "nil"
            THEN [data |-> r.data, isNil |-> r.isNil, err |-> "nil", tried |-> i,
                  hash |-> r.hash]
            ELSE decryptKeys(r.hash, keys, i + 1, inData)

\* variant: the error of DecodeString is not checked
DecryptData_NoDecodeCheck(h, keys, inData) ==
    decryptKeys(h, keys, 1, DecodeString(inData).data)

DecryptData(h, keys, inData) ==
    LET d == DecodeString(inData)
    IN IF d.err # "nil"
       THEN [data |-> <<>>, isNil |-> TRUE, err |-> d.err, tried |-> 0, hash |-> h]
       ELSE decryptKeys(h, keys, 1, d.data)

-----------------------------------------------------------------------------
(* grpc.Config *)

ZeroConfig ==
    [Endpoint |-> <<>>,
     MaxMsgSize |-> 0,
     MaxConcurrentStreams |-> 0,
     InsecureTransport |-> FALSE,
     Certfile |-> "",
     Keyfile |-> "",
     CAfiles |-> <<>>,
     KeepaliveEnable |-> FALSE,
     KeepaliveClientPingMinTime |-> 0,
     KeepalivePermitWithoutStream |-> FALSE,
     KeepaliveIdlePingInterval |-> 0,
     KeepalivePingTimeout |-> 0,
     KeepaliveMaxConnectionAge |-> 0,
     KeepaliveMaxConnectionIdle |-> 0]

\* time.Duration is counted in milliseconds here
Second == 1000

KeepaliveEnforcementPolicy(minTime, permit) ==
    [MinTime |-> minTime, PermitWithoutStream |-> permit]

\* fields a composite literal leaves out hold the zero Duration
KeepaliveServerParameters(time, timeout) ==
    [MaxConnectionIdle |-> 0, MaxConnectionAge |-> 0, MaxConnectionAgeGrace |-> 0,
     Time |-> time, Timeout |-> timeout]

\* variant: the overrides are applied without the "> 0" tests
getGrpcOptions_Unguarded(c) ==
    LET o1 == IF c.MaxConcurrentStreams > 0
              THEN <<[opt |-> "MaxConcurrentStreams", v |-> c.MaxConcurrentStreams]>>
              ELSE <<>>
        o2 == IF c.MaxMsgSize > 0
              THEN <<[opt |-> "MaxRecvMsgSize", v |-> c.MaxMsgSize]>>
              ELSE <<>>
        kaep == KeepaliveEnforcementPolicy(c.KeepaliveClientPingMinTime * Second,
                                           c.KeepalivePermitWithoutStream)
        kasp == [KeepaliveServerParameters(c.KeepaliveIdlePingInterval * Second,
                                           c.KeepalivePingTimeout * Second)
                   EXCEPT !.MaxConnectionAge = c.KeepaliveMaxConnectionAge * Second,
                          !.MaxConnectionIdle = c.KeepaliveMaxConnectionIdle * Second]
        o3 == IF c.KeepaliveEnable
              THEN <<[opt |-> "KeepaliveEnforcementPolicy", v |-> kaep],
                     [opt |-> "KeepaliveParams", v |-> kasp]>>
              ELSE <<>>
    IN o1 \o o2 \o o3

getGrpcOptions(c) ==
    LET o1 == IF c.MaxConcurrentStreams > 0
              THEN <<[opt |-> "MaxConcurrentStreams", v |-> c.MaxConcurrentStreams]>>
              ELSE <<>>
        o2 == IF c.MaxMsgSize > 0
              THEN <<[opt |-> "MaxRecvMsgSize", v |-> c.MaxMsgSize]>>
              ELSE <<>>
        kaep0 == KeepaliveEnforcementPolicy(20 * Second, FALSE)
        kasp0 == KeepaliveServerParameters(7200 * Second, 20 * Second)
        kaep1 == IF c.KeepaliveClientPingMinTime > 0
                 THEN [kaep0 EXCEPT !.MinTime = c.KeepaliveClientPingMinTime * Second]
                 ELSE kaep0
        kaep2 == IF c.KeepalivePermitWithoutStream
                 THEN [kaep1 EXCEPT !.PermitWithoutStream = c.KeepalivePermitWithoutStream]
                 ELSE kaep1
        kasp1 == IF c.KeepalivePingTimeout > 0
                 THEN [kasp0 EXCEPT !.Timeout = c.KeepalivePingTimeout * Second]
                 ELSE kasp0
        kasp2 == IF c.KeepaliveIdlePingInterval > 0
                 THEN [kasp1 EXCEPT !.Time = c.KeepaliveIdlePingInterval * Second]
                 ELSE kasp1
        kasp3 == IF c.KeepaliveMaxConnectionAge > 0
                 THEN [kasp2 EXCEPT !.MaxConnectionAge = c.KeepaliveMaxConnectionAge * Second]
                 ELSE kasp2
        kasp4 == IF c.KeepaliveMaxConnectionIdle > 0
                 THEN [kasp3 EXCEPT !.MaxConnectionIdle = c.KeepaliveMaxConnectionIdle * Second]
                 ELSE kasp3
        o3 == IF c.KeepaliveEnable
              THEN <<[opt |-> "KeepaliveEnforcementPolicy", v |-> kaep2],
                     [opt |-> "KeepaliveParams", v |-> kasp4]>>
              ELSE <<>>
    IN o1 \o o2 \o o3

\* The files the configuration may name: what ioutil.ReadFile finds and what
\* PEM blocks the data holds.
Unreadable == [readable |-> FALSE, certs |-> <<>>, key |-> "none"]

FileSystem(name) ==
    CASE name = "server.crt" -> [readable |-> TRUE, certs |-> <<"server">>, key |-> "none"]
      [] name = "server.key" -> [readable |-> TRUE, certs |-> <<>>, key |-> "server"]
      [] name = "other.key"  -> [readable |-> TRUE, certs |-> <<>>, key |-> "other"]
      [] name = "ca1.pem"    -> [readable |-> TRUE, certs |-> <<"ca1">>, key |-> "none"]
      [] name = "ca2.pem"    -> [readable |-> TRUE, certs |-> <<"ca2a", "ca2b">>, key |-> "none"]
      [] name = "junk.pem"   -> [readable |-> TRUE, certs |-> <<>>, key |-> "none"]
      [] OTHER               -> Unreadable

ReadFile(name) ==
    LET f == FileSystem(name)
    IN IF f.readable THEN [data |-> f, err |-> "nil"]
       ELSE [data |-> Unreadable, err |-> "open " \o name \o ": no such file or directory"]

NoCertificate == [leaf |-> "none", key |-> "none"]

LoadX509KeyPair(certFile, keyFile) ==
    LET certPEM == ReadFile(certFile)
        keyPEM == ReadFile(keyFile)
    IN IF certPEM.err # "nil" THEN [cert |-> NoCertificate, err |-> certPEM.err]
       ELSE IF keyPEM.err # "nil" THEN [cert |-> NoCertificate, err |-> keyPEM.err]
       ELSE IF certPEM.data.certs = <<>>
       THEN [cert |-> NoCertificate, err |-> "tls: failed to find any PEM data in certificate input"]
       ELSE IF keyPEM.data.key = "none"
       THEN [cert |-> NoCertificate, err |-> "tls: failed to find any PEM data in key input"]
       ELSE IF keyPEM.data.key # certPEM.data.certs[1]
       THEN [cert |-> NoCertificate, err |-> "tls: private key does not match public key"]
       ELSE [cert |-> [leaf |-> certPEM.data.certs[1], key |-> keyPEM.data.key],
             err |-> "nil"]

Range(s) == {s[i] : i \in 1..Len(s)}

AppendCertsFromPEM(pool, pemCerts) ==
    [pool |-> pool \cup Range(pemCerts.certs), ok |-> pemCerts.certs # <<>>]

NilTLS == [isNil |-> TRUE, MinVersion |-> "", Certificates |-> <<>>,
           ClientCAs |-> {}, ClientAuth |-> "NoClientCert"]

\* variant: the pool is installed but ClientAuth is left at its zero value
RECURSIVE loadCAs_NoClientAuth(_, _, _, _)
loadCAs_NoClientAuth(tc, files, i, caCertPool) ==
    IF i > Len(files)
    THEN [tc |-> [tc EXCEPT !.ClientCAs = caCertPool], err |-> "nil"]
    ELSE LET cert == ReadFile(files[i])
             added == AppendCertsFromPEM(caCertPool, cert.data)
         IN IF cert.err # "nil" THEN [tc |-> NilTLS, err |-> cert.err]
            ELSE IF ~added.ok
            THEN [tc |-> NilTLS,
                  err |-> "failed to add CA from '" \o files[i] \o "' file"]
            ELSE loadCAs_NoClientAuth(tc, files, i + 1, added.pool)

\* variant: the result of AppendCertsFromPEM is not checked
RECURSIVE loadCAs_Unchecked(_, _, _, _)
loadCAs_Unchecked(tc, files, i, caCertPool) ==
    IF i > Len(files)
    THEN [tc |-> [tc EXCEPT !.ClientCAs = caCertPool,
                            !.ClientAuth = "RequireAndVerifyClientCert"],
          err |-> "nil"]
    ELSE LET cert == ReadFile(files[i])
             added == AppendCertsFromPEM(caCertPool, cert.data)
         IN IF cert.err # "nil" THEN [tc |-> NilTLS, err |-> cert.err]
            ELSE loadCAs_Unchecked(tc, files, i + 1, added.pool)

\* the loop over cfg.CAfiles, from file i on
RECURSIVE loadCAs(_, _, _, _)
loadCAs(tc, files, i, caCertPool) ==
    IF i > Len(files)
    THEN [tc |-> [tc EXCEPT !.ClientCAs = caCertPool,
                            !.ClientAuth = "RequireAndVerifyClientCert"],
          err |-> "nil"]
    ELSE LET cert == ReadFile(files[i])
             added == AppendCertsFromPEM(caCertPool, cert.data)
         IN IF cert.err # "nil" THEN [tc |-> NilTLS, err |-> cert.err]
            ELSE IF ~added.ok
            THEN [tc |-> NilTLS,
                  err |-> "failed to add CA from '" \o files[i] \o "' file"]
            ELSE loadCAs(tc, files, i + 1, added.pool)

\* the part of getTLS after the two early returns
loadTLS(c) ==
    LET kp == LoadX509KeyPair(c.Certfile, c.Keyfile)
        tc == [isNil |-> FALSE, MinVersion |-> "VersionTLS12",
               Certificates |-> <<kp.cert>>,
               ClientCAs |-> {}, ClientAuth |-> "NoClientCert"]
    IN IF kp.err # "nil" THEN [tc |-> NilTLS, err |-> kp.err]
       ELSE IF Len(c.CAfiles) > 0 THEN loadCAs(tc, c.CAfiles, 1, {})
       ELSE [tc |-> tc, err |-> "nil"]

\* variant: TLS is left off when either file name is empty
getTLS_EitherEmpty(c) ==
    IF c.InsecureTransport THEN [tc |-> NilTLS, err |-> "nil"]
    ELSE IF c.Certfile = "" \/ c.Keyfile = "" THEN [tc |-> NilTLS, err |-> "nil"]
    ELSE loadTLS(c)

getTLS(c) ==
    IF c.InsecureTransport THEN [tc |-> NilTLS, err |-> "nil"]
    ELSE IF c.Certfile = "" /\ c.Keyfile = "" THEN [tc |-> NilTLS, err |-> "nil"]
    ELSE loadTLS(c)

\* strings.LastIndex(s, ":"), counted from 0; -1 when there is none
RECURSIVE LastIndex(_, _, _)
LastIndex(s, sep, i) ==
    IF i = 0 THEN -1
    ELSE IF s[i] = sep THEN i - 1
    ELSE LastIndex(s, sep, i - 1)

Digits == {"0", "1", "2", "3", "4", "5", "6", "7", "8", "9"}

DigitVal(c) ==
    CASE c = "0" -> 0 [] c = "1" -> 1 [] c = "2" -> 2 [] c = "3" -> 3
      [] c = "4" -> 4 [] c = "5" -> 5 [] c = "6" -> 6 [] c = "7" -> 7
      [] c = "8" -> 8 [] c = "9" -> 9

RECURSIVE parseDigits(_, _, _)
parseDigits(s, i, n) ==
    IF i > Len(s) THEN [val |-> n, err |-> "nil"]
    ELSE IF s[i] \notin Digits THEN [val |-> 0, err |-> "ErrSyntax"]
    ELSE parseDigits(s, i + 1, (n * 10) + DigitVal(s[i]))

\* strconv.Atoi: an optional sign, then decimal digits only
Atoi(s) ==
    IF Len(s) = 0 THEN [val |-> 0, err |-> "ErrSyntax"]
    ELSE LET signed == s[1] = "-" \/ s[1] = "+"
             body == IF signed THEN Tail(s) ELSE s
             n == parseDigits(body, 1, 0)
         IN IF Len(body) = 0 THEN [val |-> 0, err |-> "ErrSyntax"]
            ELSE IF n.err # "nil" THEN n
            ELSE IF s[1] = "-" THEN [val |-> 0 - n.val, err |-> "nil"]
            ELSE n

\* strings.Index(s, ":"), counted from 0; -1 when there is none
RECURSIVE Index(_, _, _)
Index(s, sep, i) ==
    IF i > Len(s) THEN -1
    ELSE IF s[i] = sep THEN i - 1
    ELSE Index(s, sep, i + 1)

\* variant: the text after the first ':' is parsed
GetPort_FirstIndex(c) ==
    IF c.Endpoint # <<>> /\ c.Endpoint # <<":">>
    THEN LET index == Index(c.Endpoint, ":", 1)
             port == Atoi(Slice(c.Endpoint, index + 2, Len(c.Endpoint)))
         IN IF index >= 0 /\ port.err = "nil" THEN port.val ELSE 0
    ELSE 0

GetPort(c) ==
    IF c.Endpoint # <<>> /\ c.Endpoint # <<":">>
    THEN LET index == LastIndex(c.Endpoint, ":", Len(c.Endpoint))
             port == Atoi(Slice(c.Endpoint, index + 2, Len(c.Endpoint)))
         IN IF index >= 0 /\ port.err = "nil" THEN port.val ELSE 0
    ELSE 0

-----------------------------------------------------------------------------
(* Sequential use of one Client *)

PlainBytes == {0, 1, 2}
Plaintexts == SeqsUpTo(PlainBytes, MaxMsgLen) \cup {Zeros(MaxMsgLen + 1)}
Seeds == {<<0>>, <<9>>}

NoEnc == [called |-> FALSE, in |-> <<>>, pub |-> 0, data |-> <<>>, err |-> "nil"]
NoDec == [called |-> FALSE, in |-> <<>>, data |-> <<>>, isNil |-> TRUE,
          err |-> "nil", tried |-> 0]

ReplaceAt(s, i, c) == [s EXCEPT ![i] = c]

\* inputs of DecryptData derived from a stored CipherValue s
Corruptions(s) ==
    IF Len(s) = 0 THEN {<<"A">>, <<"A", "A", "=", "=">>}
    ELSE { Slice(s, 1, Len(s) - 1),
           ReplaceAt(s, 1, "+"),
           ReplaceAt(s, 1, StdPadding),
           ReplaceAt(s, 2, IF s[2] = "A" THEN "B" ELSE "A"),
           s \o <<"\n">>,
           <<"\r">> \o s,
           s \o <<StdPadding>>,
           s \o <<"A", "A", "A", "A">> }

DecryptInputs == {encCall.data, <<>>} \cup Corruptions(encCall.data)

NoRet == [fn |-> "none"]

InitCrypto ==
    /\ \E keys \in SeqsUpTo(KeyIds, MaxKeys) :
         LET client == NewClient([PrivateKeys |-> keys, Hash |-> "nil"])
         IN /\ PrivateKeys = client.PrivateKeys
            /\ Hash = client.Hash
    /\ encCall = NoEnc
    /\ decCall = NoDec
    /\ gr = <<>>
    /\ cfg = ZeroConfig
    /\ ret = NoRet

CallEncryptData ==
    \E p \in Plaintexts, pub \in KeyIds, seed \in Seeds :
        \E r \in {EncryptData(Hash, seed, p, pub)} :
           /\ encCall' = [called |-> TRUE, in |-> p, pub |-> pub,
                          data |-> r.data, err |-> r.err]
           /\ Hash' = r.hash
           /\ decCall' = NoDec
           /\ UNCHANGED <<PrivateKeys, gr, cfg, ret>>

CallDecryptData ==
    \E inData \in DecryptInputs :
        \E r \in {DecryptData(Hash, PrivateKeys, inData)} :
           /\ decCall' = [called |-> TRUE, in |-> inData, data |-> r.data,
                          isNil |-> r.isNil, err |-> r.err, tried |-> r.tried]
           /\ Hash' = r.hash
           /\ UNCHANGED <<PrivateKeys, encCall, gr, cfg, ret>>

NextCrypto == CallEncryptData \/ CallDecryptData

SpecCrypto == InitCrypto /\ [][NextCrypto]_vars

-----------------------------------------------------------------------------
(* Properties of the sequential client *)

InKeyring(k) == \E i \in 1..Len(PrivateKeys) : PublicKey(PrivateKeys[i]) = k

\* what key i alone makes of the decoded input of the last DecryptData call
Attempt(i) == DecryptOAEP(HashReset, PrivateKeys[i], DecodeString(decCall.in).data)

Decrypts(i) == Attempt(i).err = "nil"

\* C1: round trip. A plaintext within the OAEP size bound encrypts without
\* error, and decrypting that CipherValue on a Client whose keyring holds the
\* matching private key, at any position and among any other keys, returns
\* exactly the plaintext with a nil error.
C1_RoundTrip ==
    /\ (encCall.called /\ Len(encCall.in) <= MaxMsgLen) => encCall.err = "nil"
    /\ (/\ encCall.called /\ encCall.err = "nil"
        /\ decCall.called /\ decCall.in = encCall.data
        /\ InKeyring(encCall.pub))
       => (decCall.err = "nil" /\ ~decCall.isNil /\ decCall.data = encCall.in)

C1_Witness ==
    /\ encCall.called /\ encCall.err = "nil" /\ Len(encCall.in) = MaxMsgLen
    /\ decCall.called /\ decCall.in = encCall.data
    /\ Len(PrivateKeys) = 2
    /\ PrivateKeys[1] # encCall.pub /\ PrivateKeys[2] = encCall.pub
    /\ decCall.err = "nil" /\ decCall.data = encCall.in

\* C2: keyring fallback. The keys are tried in slice order; the call returns
\* the plaintext of the first key that decrypts and tries no key after it.
\* For a keyring [A, B] and a CipherValue made with B's public key the call
\* succeeds with B's plaintext after A was tried and failed.
C2_Fallback ==
    /\ (decCall.called /\ \E i \in 1..Len(PrivateKeys) : Decrypts(i))
       => LET first == CHOOSE i \in 1..Len(PrivateKeys) :
                          Decrypts(i) /\ \A j \in 1..(i - 1) : ~Decrypts(j)
          IN /\ decCall.err = "nil"
             /\ decCall.tried = first
             /\ decCall.data = Attempt(first).data
    /\ (/\ decCall.called /\ encCall.called /\ encCall.err = "nil"
        /\ decCall.in = encCall.data
        /\ Len(PrivateKeys) = 2 /\ PrivateKeys[1] # PrivateKeys[2]
        /\ PublicKey(PrivateKeys[2]) = encCall.pub)
       => (/\ ~Decrypts(1)
           /\ decCall.err = "nil" /\ decCall.tried = 2
           /\ decCall.data = encCall.in)

C2_Witness ==
    /\ decCall.called /\ encCall.called /\ encCall.err = "nil"
    /\ decCall.in = encCall.data
    /\ Len(PrivateKeys) = 2 /\ PrivateKeys[1] # PrivateKeys[2]
    /\ PublicKey(PrivateKeys[2]) = encCall.pub
    /\ decCall.tried = 2 /\ decCall.err = "nil" /\ decCall.data = encCall.in

\* C3: no matching key. When the input decodes and no key of the keyring
\* decrypts it (the empty keyring included), the call returns the
\* "no private key matching" error with nil data, never a plaintext with a
\* nil error.
C3_NoMatchingKey ==
    (/\ decCall.called
     /\ DecodeString(decCall.in).err = "nil"
     /\ \A i \in 1..Len(PrivateKeys) : ~Decrypts(i))
    => (/\ decCall.err = ErrNoKey
        /\ decCall.isNil /\ decCall.data = <<>>
        /\ decCall.tried = Len(PrivateKeys))

C3_Witness ==
    /\ decCall.called /\ encCall.called /\ encCall.err = "nil"
    /\ decCall.in = encCall.data
    /\ Len(PrivateKeys) = 2 /\ ~InKeyring(encCall.pub)
    /\ decCall.err = ErrNoKey /\ decCall.isNil /\ decCall.tried = 2

\* C10: a decoding failure is told apart from a wrong key. An input that is
\* not valid URL-safe base64 returns the decoding error before any key is
\* tried; that error is not the "no private key matching" error; and every
\* call ends in exactly one of: decoding error, no-matching-key error,
\* plaintext with nil error.
C10_DecodingError ==
    decCall.called =>
       LET d == DecodeString(decCall.in)
           decErr == decCall.err = "CorruptInputError"
           noKey == decCall.err = ErrNoKey
           plain == decCall.err = "nil" /\ ~decCall.isNil
       IN /\ d.err # "nil" => (/\ decCall.err = d.err /\ decErr /\ ~noKey
                               /\ decCall.tried = 0 /\ decCall.isNil)
          /\ d.err = "nil" => ~decErr
          /\ decErr \/ noKey \/ plain
          /\ ~(decErr /\ noKey) /\ ~(decErr /\ plain) /\ ~(noKey /\ plain)

C10_Witness ==
    /\ decCall.called /\ encCall.called /\ encCall.err = "nil"
    /\ decCall.in = ReplaceAt(encCall.data, 1, "+")
    /\ InKeyring(encCall.pub)
    /\ decCall.err = "CorruptInputError" /\ decCall.tried = 0

-----------------------------------------------------------------------------
(* Calls on a Config loaded from declarative configuration *)

TLSFileNames == {"", "missing.pem", "server.crt", "server.key", "other.key", "junk.pem"}
CAFileNames == {"ca1.pem", "ca2.pem", "junk.pem", "missing.pem"}
KeepaliveValues == {0, 1, 30}
EndpointChars == {":", "0", "1", "9", "-", "+", "a"}
ExampleEndpoint == <<"0", ".", "0", ".", "0", ".", "0", ":", "9", "1", "1", "1">>

InitOther ==
    /\ PrivateKeys = <<>>
    /\ Hash = HashReset
    /\ encCall = NoEnc
    /\ decCall = NoDec
    /\ gr = <<>>
    /\ ret = NoRet

InitTLS ==
    /\ InitOther
    /\ \E insecure \in BOOLEAN, cert \in TLSFileNames, key \in TLSFileNames,
          cas \in SeqsUpTo(CAFileNames, MaxCAfiles) :
         cfg = [ZeroConfig EXCEPT !.InsecureTransport = insecure, !.Certfile = cert,
                                  !.Keyfile = key, !.CAfiles = cas]

InitKeepalive ==
    /\ InitOther
    /\ \E enable \in BOOLEAN, permit \in BOOLEAN, streams \in {0, 8},
          v \in [1..5 -> KeepaliveValues] :
         cfg = [ZeroConfig EXCEPT !.KeepaliveEnable = enable,
                                  !.KeepalivePermitWithoutStream = permit,
                                  !.MaxConcurrentStreams = streams,
                                  !.MaxMsgSize = streams * 512,
                                  !.KeepaliveClientPingMinTime = v[1],
                                  !.KeepaliveIdlePingInterval = v[2],
                                  !.KeepalivePingTimeout = v[3],
                                  !.KeepaliveMaxConnectionAge = v[4],
                                  !.KeepaliveMaxConnectionIdle = v[5]]

InitPort ==
    /\ InitOther
    /\ \E e \in SeqsUpTo(EndpointChars, MaxEndpointLen) \cup {ExampleEndpoint} :
         cfg = [ZeroConfig EXCEPT !.Endpoint = e]

CallGetTLS ==
    \E r \in {getTLS(cfg)} :
        /\ ret' = [fn |-> "getTLS", tc |-> r.tc, err |-> r.err, cfg |-> cfg]
        /\ UNCHANGED <<PrivateKeys, Hash, encCall, decCall, gr, cfg>>

CallGetGrpcOptions ==
    /\ ret' = [fn |-> "getGrpcOptions", opts |-> getGrpcOptions(cfg), cfg |-> cfg]
    /\ UNCHANGED <<PrivateKeys, Hash, encCall, decCall, gr, cfg>>

CallGetPort ==
    /\ ret' = [fn |-> "GetPort", port |-> GetPort(cfg), cfg |-> cfg]
    /\ UNCHANGED <<PrivateKeys, Hash, encCall, decCall, gr, cfg>>

NextConfig == CallGetTLS \/ CallGetGrpcOptions \/ CallGetPort

SpecTLS == InitTLS /\ [][NextConfig]_vars

SpecKeepalive == InitKeepalive /\ [][NextConfig]_vars

SpecPort == InitPort /\ [][NextConfig]_vars

-----------------------------------------------------------------------------
(* Properties of getTLS *)

TLSOff == ret.tc.isNil /\ ret.err = "nil"

NoKeyPairNamed == ret.cfg.Certfile = "" /\ ret.cfg.Keyfile = ""

\* C5 as stated: getTLS returns (nil, nil) only when InsecureTransport is true.
C5_Original ==
    ret.fn = "getTLS" => (TLSOff => ret.cfg.InsecureTransport)

\* C5 (amended): getTLS returns (nil config, nil error) exactly when
\* InsecureTransport is true or both Certfile and Keyfile are empty; with
\* InsecureTransport false and a Certfile or a Keyfile named it returns a
\* non-nil TLS config or a non-nil error.
C5_TLSOffOnlyIf ==
    ret.fn = "getTLS" =>
        /\ TLSOff <=> (ret.cfg.InsecureTransport \/ NoKeyPairNamed)
        /\ (~ret.cfg.InsecureTransport /\ ~NoKeyPairNamed)
           => (~ret.tc.isNil \/ ret.err # "nil")

C5_Witness ==
    /\ ret.fn = "getTLS" /\ ~ret.cfg.InsecureTransport
    /\ ret.cfg.Certfile = "server.crt" /\ ret.cfg.Keyfile = "server.key"
    /\ ~ret.tc.isNil /\ ret.err = "nil"

ListedCAs(files) == UNION {Range(FileSystem(files[i]).certs) : i \in 1..Len(files)}

ClientsVerified ==
    /\ ~ret.tc.isNil
    /\ ret.tc.ClientAuth = "RequireAndVerifyClientCert"
    /\ ret.tc.ClientCAs = ListedCAs(ret.cfg.CAfiles)

\* C6 as stated: whenever CA files are configured and getTLS returns no error,
\* the result requires and verifies client certificates.
C6_Original ==
    (ret.fn = "getTLS" /\ Len(ret.cfg.CAfiles) > 0 /\ ret.err = "nil")
    => ClientsVerified

\* C6 (amended): for a Config with InsecureTransport false, a Certfile or a
\* Keyfile named and at least one CA file, a getTLS that returns no error
\* returns a TLS config with ClientAuth = RequireAndVerifyClientCert whose
\* ClientCAs hold every certificate of every listed CA file; without CA files
\* a returned config asks for no client certificate.
C6_ClientAuth ==
    ret.fn = "getTLS" =>
        /\ (/\ Len(ret.cfg.CAfiles) > 0 /\ ret.err = "nil"
            /\ ~ret.cfg.InsecureTransport /\ ~NoKeyPairNamed)
           => ClientsVerified
        /\ (Len(ret.cfg.CAfiles) = 0 /\ ~ret.tc.isNil)
           => (ret.tc.ClientAuth = "NoClientCert" /\ ret.tc.ClientCAs = {})

C6_Witness ==
    /\ ret.fn = "getTLS" /\ ret.err = "nil" /\ ~ret.tc.isNil
    /\ ret.cfg.CAfiles = <<"ca1.pem", "ca2.pem">>
    /\ ret.tc.ClientAuth = "RequireAndVerifyClientCert"
    /\ ret.tc.ClientCAs = {"ca1", "ca2a", "ca2b"}

BadCA(files) ==
    \E i \in 1..Len(files) :
        \/ ~FileSystem(files[i]).readable
        \/ FileSystem(files[i]).certs = <<>>

BadKeyPair(c) ==
    \/ (c.Certfile # "" /\ c.Keyfile = "")
    \/ (c.Certfile = "" /\ c.Keyfile # "")
    \/ (~(c.Certfile = "" /\ c.Keyfile = "")
        /\ \/ ~FileSystem(c.Certfile).readable
           \/ ~FileSystem(c.Keyfile).readable
           \/ FileSystem(c.Certfile).certs = <<>>
           \/ FileSystem(c.Keyfile).key = "none"
           \/ FileSystem(c.Keyfile).key # FileSystem(c.Certfile).certs[1])

\* C7 as stated: with InsecureTransport false every bad key pair and every bad
\* CA file is an error, and an error never comes with a config.
C7_Original ==
    ret.fn = "getTLS" =>
        /\ (~ret.cfg.InsecureTransport /\ (BadKeyPair(ret.cfg) \/ BadCA(ret.cfg.CAfiles)))
           => ret.err # "nil"
        /\ ret.err # "nil" => ret.tc.isNil

\* C7 (amended): with InsecureTransport false and a Certfile or a Keyfile
\* named, a missing half of the pair, an unloadable key pair, an unreadable CA
\* file or a CA file without a parseable certificate makes getTLS return a
\* non-nil error; and whenever getTLS returns a non-nil error the TLS config
\* it returns is nil.
C7_ErrorsFatal ==
    ret.fn = "getTLS" =>
        /\ (/\ ~ret.cfg.InsecureTransport /\ ~NoKeyPairNamed
            /\ (BadKeyPair(ret.cfg) \/ BadCA(ret.cfg.CAfiles)))
           => ret.err # "nil"
        /\ ret.err # "nil" => ret.tc = NilTLS

C7_Witness ==
    /\ ret.fn = "getTLS" /\ ~ret.cfg.InsecureTransport
    /\ ret.cfg.Certfile = "server.crt" /\ ret.cfg.Keyfile = "server.key"
    /\ ret.cfg.CAfiles = <<"ca1.pem", "junk.pem">>
    /\ ret.err # "nil" /\ ret.tc.isNil

-----------------------------------------------------------------------------
(* Properties of getGrpcOptions *)

HasOpt(name) == \E i \in 1..Len(ret.opts) : ret.opts[i].opt = name

Opt(name) == ret.opts[CHOOSE i \in 1..Len(ret.opts) : ret.opts[i].opt = name].v

Overridden(field, value, default) ==
    IF field = 0 THEN value = default ELSE value = field * Second

\* C8: keepalive overrides. In the policy getGrpcOptions builds, a numeric
\* keepalive field that is zero leaves its policy value at the default
\* (20 s, 7200 s, 20 s, and the unset zero Duration for the two connection
\* limits), the three ping values are never zero, and a nonzero field sets
\* exactly its own policy value to that many seconds.
C8_Keepalive ==
    (ret.fn = "getGrpcOptions" /\ ret.cfg.KeepaliveEnable) =>
        /\ HasOpt("KeepaliveEnforcementPolicy") /\ HasOpt("KeepaliveParams")
        /\ LET kaep == Opt("KeepaliveEnforcementPolicy")
               kasp == Opt("KeepaliveParams")
               c == ret.cfg
           IN /\ Overridden(c.KeepaliveClientPingMinTime, kaep.MinTime, 20 * Second)
              /\ Overridden(c.KeepaliveIdlePingInterval, kasp.Time, 7200 * Second)
              /\ Overridden(c.KeepalivePingTimeout, kasp.Timeout, 20 * Second)
              /\ Overridden(c.KeepaliveMaxConnectionAge, kasp.MaxConnectionAge, 0)
              /\ Overridden(c.KeepaliveMaxConnectionIdle, kasp.MaxConnectionIdle, 0)
              /\ kasp.MaxConnectionAgeGrace = 0
              /\ kaep.MinTime > 0 /\ kasp.Time > 0 /\ kasp.Timeout > 0

C8_Witness ==
    /\ ret.fn = "getGrpcOptions" /\ ret.cfg.KeepaliveEnable
    /\ ret.cfg.KeepaliveClientPingMinTime = 0
    /\ ret.cfg.KeepaliveIdlePingInterval = 30
    /\ ret.cfg.KeepalivePingTimeout = 0
    /\ ret.cfg.KeepaliveMaxConnectionAge = 1
    /\ ret.cfg.KeepaliveMaxConnectionIdle = 0
    /\ Opt("KeepaliveParams").Time = 30 * Second
    /\ Opt("KeepaliveParams").Timeout = 20 * Second

-----------------------------------------------------------------------------
(* Properties of GetPort *)

HasColon(e) == \E i \in 1..Len(e) : e[i] = ":"

\* the text after the last ':' of e
Suffix(e) ==
    LET i == CHOOSE j \in 1..Len(e) :
                 e[j] = ":" /\ \A k \in (j + 1)..Len(e) : e[k] # ":"
    IN SubSeq(e, i + 1, Len(e))

AllDigits(t) == Len(t) > 0 /\ \A i \in 1..Len(t) : t[i] \in Digits

RECURSIVE Decimal(_)
Decimal(t) ==
    IF Len(t) = 0 THEN 0
    ELSE (DigitVal(t[1]) * (10 ^ (Len(t) - 1))) + Decimal(Tail(t))

PortNumber(t) == AllDigits(t) /\ Decimal(t) <= 65535

SignedInteger(t) == Len(t) > 0 /\ t[1] \in {"+", "-"} /\ AllDigits(Tail(t))

\* C9 as stated: the port after the last ':' when that text is a port number,
\* 0 otherwise.
C9_Original ==
    ret.fn = "GetPort" =>
        LET e == ret.cfg.Endpoint
        IN IF HasColon(e) /\ PortNumber(Suffix(e))
           THEN ret.port = Decimal(Suffix(e))
           ELSE ret.port = 0

\* C9 (amended): GetPort returns the integer written after the last ':' of
\* Endpoint, where an integer is decimal digits with an optional leading sign,
\* so ":-1" gives -1 and ":+1" gives 1; it returns 0 when Endpoint is "" or
\* ":", has no ':', or the text after the last ':' is not such an integer; it
\* leaves the Config as it was.
C9_GetPort ==
    ret.fn = "GetPort" =>
        LET e == ret.cfg.Endpoint
        IN /\ ret.cfg = cfg
           /\ IF HasColon(e) /\ AllDigits(Suffix(e))
              THEN ret.port = Decimal(Suffix(e))
              ELSE IF HasColon(e) /\ SignedInteger(Suffix(e))
              THEN ret.port = (IF Suffix(e)[1] = "-" THEN -1 ELSE 1)
                              * Decimal(Tail(Suffix(e)))
              ELSE ret.port = 0

C9_Witness ==
    /\ ret.fn = "GetPort"
    /\ ret.cfg.Endpoint = ExampleEndpoint
    /\ ret.port = 9111

-----------------------------------------------------------------------------
(* Concurrent calls on one Client: every method call on the shared hash.Hash *)
(* is one step of the calling goroutine.                                    *)

Goroutines == {1, 2}

ConcKeyrings == {<<1>>}
ConcPlaintexts == {<<2>>, Zeros(MaxMsgLen + 1)}
ConcSeeds == {<<9>>}
ConcPubs == {1}

\* CipherValues a store may hold: EncryptData run alone
StoredValues ==
    {EncryptData(HashReset, sd, p, k).data :
        sd \in ConcSeeds, p \in {q \in ConcPlaintexts : Len(q) <= MaxMsgLen}, k \in ConcPubs}

ConcInputs == StoredValues \cup {<<"A">>}

IdleG ==
    [pc |-> "idle", op |-> "none", in |-> <<>>, pub |-> 0, seed |-> <<>>,
     i |-> 0, ct |-> <<>>, em |-> <<>>, lHash |-> <<>>,
     out |-> <<>>, mseed |-> <<>>, done |-> 0, counter |-> 0, digest |-> <<>>,
     phase |-> 0, data |-> <<>>, isNil |-> TRUE, err |-> "nil", tried |-> 0]

Finish(l, data, isNil, err, tried) ==
    [IdleG EXCEPT !.pc = "done", !.op = l.op, !.in = l.in, !.pub = l.pub,
                  !.seed = l.seed, !.data = data, !.isNil = isNil, !.err = err,
                  !.tried = tried]

\* for _, key := range client.PrivateKeys, from key i on, up to the first call
\* DecryptOAEP makes on the hash
RECURSIVE StartKey(_, _)
StartKey(l, i) ==
    IF i > Len(PrivateKeys) THEN Finish(l, <<>>, TRUE, ErrNoKey, Len(PrivateKeys))
    ELSE IF Len(l.ct) > KeyBytes \/ KeyBytes < HashSize * 2 + 2 THEN StartKey(l, i + 1)
    ELSE [l EXCEPT !.i = i, !.pc = "label",
                   !.em = rsaDecrypt(PrivateKeys[i], LeftPad(l.ct, KeyBytes))]

Set(g, l) == gr' = [gr EXCEPT ![g] = l]

BeginEncrypt(g) ==
    /\ gr[g].pc = "idle"
    /\ \E p \in ConcPlaintexts, pub \in ConcPubs, seed \in ConcSeeds :
         Set(g, [IdleG EXCEPT !.pc = "reset0", !.op = "enc", !.in = p,
                              !.pub = pub, !.seed = seed])
    /\ UNCHANGED <<PrivateKeys, Hash, encCall, decCall, cfg, ret>>

BeginDecrypt(g) ==
    /\ gr[g].pc = "idle"
    /\ \E inData \in ConcInputs :
         LET d == DecodeString(inData)
             l == [IdleG EXCEPT !.op = "dec", !.in = inData, !.ct = d.data]
         IN IF d.err # "nil" THEN Set(g, Finish(l, <<>>, TRUE, d.err, 0))
            ELSE Set(g, StartKey(l, 1))
    /\ UNCHANGED <<PrivateKeys, Hash, encCall, decCall, cfg, ret>>

\* EncryptOAEP: hash.Reset() and the length check
StepReset0(g) ==
    /\ gr[g].pc = "reset0"
    /\ Hash' = HashReset
    /\ IF Len(gr[g].in) > KeyBytes - 2 * HashSize - 2
       THEN Set(g, Finish(gr[g], EncodeToString(<<>>), FALSE, "ErrMessageTooLong", 0))
       ELSE Set(g, [gr[g] EXCEPT !.pc = "label"])
    /\ UNCHANGED <<PrivateKeys, encCall, decCall, cfg, ret>>

\* hash.Write(label)
StepLabel(g) ==
    /\ gr[g].pc = "label"
    /\ Hash' = HashWrite(Hash, <<>>)
    /\ Set(g, [gr[g] EXCEPT !.pc = "sum"])
    /\ UNCHANGED <<PrivateKeys, encCall, decCall, cfg, ret>>

\* lHash := hash.Sum(nil)
StepSum(g) ==
    /\ gr[g].pc = "sum"
    /\ Set(g, [gr[g] EXCEPT !.pc = "reset", !.lHash = HashSum(Hash)])
    /\ UNCHANGED <<PrivateKeys, Hash, encCall, decCall, cfg, ret>>

\* hash.Reset(), then the buffers of the first mgf1XOR
StepReset(g) ==
    /\ gr[g].pc = "reset"
    /\ Hash' = HashReset
    /\ LET l == gr[g]
       IN IF l.op = "enc"
          THEN Set(g, [l EXCEPT !.pc = "wseed", !.phase = 1, !.done = 0, !.counter = 0,
                                !.out = PaddedDB(l.lHash, l.in), !.mseed = l.seed])
          ELSE Set(g, [l EXCEPT !.pc = "wseed", !.phase = 1, !.done = 0, !.counter = 0,
                                !.out = Slice(l.em, 2, HashSize + 1),
                                !.mseed = Slice(l.em, HashSize + 2, KeyBytes)])
    /\ UNCHANGED <<PrivateKeys, encCall, decCall, cfg, ret>>

\* mgf1XOR: hash.Write(seed)
StepWriteSeed(g) ==
    /\ gr[g].pc = "wseed"
    /\ Hash' = HashWrite(Hash, gr[g].mseed)
    /\ Set(g, [gr[g] EXCEPT !.pc = "wctr"])
    /\ UNCHANGED <<PrivateKeys, encCall, decCall, cfg, ret>>

\* mgf1XOR: hash.Write(counter[0:4])
StepWriteCounter(g) ==
    /\ gr[g].pc = "wctr"
    /\ Hash' = HashWrite(Hash, Counter(gr[g].counter))
    /\ Set(g, [gr[g] EXCEPT !.pc = "msum"])
    /\ UNCHANGED <<PrivateKeys, encCall, decCall, cfg, ret>>

\* mgf1XOR: digest = hash.Sum(digest[:0])
StepMgfSum(g) ==
    /\ gr[g].pc = "msum"
    /\ Set(g, [gr[g] EXCEPT !.pc = "mreset", !.digest = HashSum(Hash)])
    /\ UNCHANGED <<PrivateKeys, Hash, encCall, decCall, cfg, ret>>

\* what follows the second mgf1XOR of a call
AfterMasks(l) ==
    IF l.op = "enc"
    THEN Finish(l, EncodeToString(rsaEncrypt(l.pub, <<0>> \o l.out \o l.mseed)),
                FALSE, "nil", 0)
    ELSE LET r == OAEPCheck(l.em, l.lHash, l.mseed, l.out)
         IN IF r.err = "nil" THEN Finish(l, r.data, r.isNil, "nil", l.i)
            ELSE StartKey(l, l.i + 1)

\* mgf1XOR: hash.Reset(), the xor into out and the loop test
StepMgfReset(g) ==
    /\ gr[g].pc = "mreset"
    /\ Hash' = HashReset
    /\ LET l == gr[g]
           out1 == xorInto(l.out, l.done, l.digest)
           done1 == Advance(l.out, l.done, l.digest)
       IN IF done1 < Len(l.out)
          THEN Set(g, [l EXCEPT !.pc = "wseed", !.out = out1, !.done = done1,
                                !.counter = l.counter + 1, !.digest = <<>>])
          ELSE IF l.phase = 1
          THEN Set(g, [l EXCEPT !.pc = "wseed", !.phase = 2, !.out = l.mseed,
                                !.mseed = out1, !.done = 0, !.counter = 0,
                                !.digest = <<>>])
          ELSE Set(g, AfterMasks([l EXCEPT !.out = out1]))
    /\ UNCHANGED <<PrivateKeys, encCall, decCall, cfg, ret>>

Step(g) ==
    \/ BeginEncrypt(g)
    \/ BeginDecrypt(g)
    \/ StepReset0(g)
    \/ StepLabel(g)
    \/ StepSum(g)
    \/ StepReset(g)
    \/ StepWriteSeed(g)
    \/ StepWriteCounter(g)
    \/ StepMgfSum(g)
    \/ StepMgfReset(g)

InitConc ==
    /\ \E keys \in ConcKeyrings :
         LET client == NewClient([PrivateKeys |-> keys, Hash |-> "nil"])
         IN /\ PrivateKeys = client.PrivateKeys
            /\ Hash = client.Hash
    /\ encCall = NoEnc
    /\ decCall = NoDec
    /\ gr = [g \in Goroutines |-> IdleG]
    /\ cfg = ZeroConfig
    /\ ret = NoRet

NextConc == \E g \in Goroutines : Step(g)

SpecConc == InitConc /\ [][NextConc]_vars

\* one call at a time: a goroutine moves only while no other is inside a call
Running(g) == gr[g].pc \notin {"idle", "done"}

NextSerial ==
    \E g \in Goroutines : (\A o \in Goroutines \ {g} : ~Running(o)) /\ Step(g)

SpecSerial == InitConc /\ [][NextSerial]_vars

\* what the call of goroutine g returns when it runs alone
Alone(g) ==
    IF gr[g].op = "enc"
    THEN LET r == EncryptData(HashReset, gr[g].seed, gr[g].in, gr[g].pub)
         IN [data |-> r.data, isNil |-> r.isNil, err |-> r.err]
    ELSE LET r == DecryptData(HashReset, PrivateKeys, gr[g].in)
         IN [data |-> r.data, isNil |-> r.isNil, err |-> r.err]

\* C4: calls on one Client are safe to run concurrently: every call that
\* returns, returns what it returns when run alone, whatever the other
\* goroutine did to the Client in between.
C4_ConcurrentSafe ==
    \A g \in Goroutines :
        gr[g].pc = "done" =>
            [data |-> gr[g].data, isNil |-> gr[g].isNil, err |-> gr[g].err] = Alone(g)

=============================================================================
